---- MODULE Spec2Model ----
(***************************************************************************)
(* Model of process_orders.py: the order-processing run (main) with its    *)
(* loaders, the two aggregations and the JSON writer.                      *)
(*                                                                         *)
(* Strings are sequences of one-character strings, so that str.strip() and *)
(* re.match() are computed character by character.  Prices are integers    *)
(* (0 stands for 0.0).  A dictionary is a function; a missing key is a key *)
(* outside its DOMAIN, read with Get as dict.get reads it.                 *)
(***************************************************************************)
EXTENDS Integers, Sequences, FiniteSets, TLC

(***************************************************************************)
(* Bounds of the model.                                                    *)
(***************************************************************************)
\* most orders in the input file
MaxOrders == 2
\* most line items in the input file, over all its orders
MaxItems == 3

(***************************************************************************)
(* Strings.                                                                *)
(***************************************************************************)
Whitespace == {" ", "\n"}
Digit == {"0", "1", "2", "3", "4", "5", "6", "7", "8", "9"}

RECURSIVE LStrip(_)
LStrip(s) ==
    IF s # <<>> /\ Head(s) \in Whitespace THEN LStrip(Tail(s)) ELSE s

RECURSIVE RStrip(_)
RStrip(s) ==
    IF s # <<>> /\ s[Len(s)] \in Whitespace
    THEN RStrip(SubSeq(s, 1, Len(s) - 1))
    ELSE s

\* str.strip()
Strip(s) == RStrip(LStrip(s))

\* {}
EmptyDict == [x \in {} |-> x]

\* dict.get(key, default)
Get(d, key, default) == IF key \in DOMAIN d THEN d[key] ELSE default

(***************************************************************************)
(* Regular expressions.  A compiled pattern is a sequence of tokens, "d"   *)
(* for \d and any other character for itself, and whether it ends in $.    *)
(* re.match anchors the match at the start of the string only; $ matches   *)
(* at the end of the string or just before a final newline.                *)
(***************************************************************************)
TokenMatches(tok, ch) == IF tok = "d" THEN ch \in Digit ELSE ch = tok

ReMatch(pattern, s) ==
    LET n == Len(pattern.body) IN
    /\ Len(s) >= n
    /\ \A k \in 1..n : TokenMatches(pattern.body[k], s[k])
    /\ pattern.dollar =>
          \/ Len(s) = n
          \/ Len(s) = n + 1 /\ s[n + 1] = "\n"

\* A pattern string, as the configuration holds it: ok says whether
\* re.compile accepts it.
\* r'^\d{3}-\d{3}-\d{4}$', the default of config.get('phone_pattern', ...)
DefaultPhonePattern ==
    [ok |-> TRUE,
     body |-> <<"d", "d", "d", "-", "d", "d", "d", "-", "d", "d", "d", "d">>,
     dollar |-> TRUE]
\* r'^\d{5}$'
FiveDigitPattern ==
    [ok |-> TRUE, body |-> <<"d", "d", "d", "d", "d">>, dollar |-> TRUE]
\* r'\d{3}-', which has no $ and so accepts any continuation
AreaCodePattern ==
    [ok |-> TRUE, body |-> <<"d", "d", "d", "-">>, dollar |-> FALSE]
\* r'(\d', which re.compile rejects with re.error
UnbalancedPattern == [ok |-> FALSE, body |-> <<"(", "d">>, dollar |-> FALSE]

validate_phone_number(phone, pattern) == ReMatch(pattern, Strip(phone))

(***************************************************************************)
(* process_customers: the body of its loop, for one order.                 *)
(***************************************************************************)
OrderPhone(order) == Strip(Get(order, "phone", <<>>))
OrderName(order) == Strip(Get(order, "name", <<>>))

\* the condition of line 169
CustomerAccepted(order, pattern) ==
    /\ OrderPhone(order) # <<>>
    /\ OrderName(order) # <<>>
    /\ validate_phone_number(OrderPhone(order), pattern)

\* CustomerStep without the call of validate_phone_number
CustomerStepNoValidation(customers, order, pattern) ==
    IF OrderPhone(order) # <<>> /\ OrderName(order) # <<>>
       /\ OrderPhone(order) \notin DOMAIN customers
    THEN customers @@ (OrderPhone(order) :> OrderName(order))
    ELSE customers

\* CustomerStep without the test of line 171: the last name wins
CustomerStepLastWins(customers, order, pattern) ==
    IF CustomerAccepted(order, pattern)
    THEN (OrderPhone(order) :> OrderName(order)) @@ customers
    ELSE customers

\* CustomerStep that records a customer only in an empty mapping
CustomerStepDropsRepeat(customers, order, pattern) ==
    IF CustomerAccepted(order, pattern) /\ DOMAIN customers = {}
    THEN customers @@ (OrderPhone(order) :> OrderName(order))
    ELSE customers

\* lines 165-172
CustomerStep(customers, order, pattern) ==
    IF CustomerAccepted(order, pattern)
       /\ OrderPhone(order) \notin DOMAIN customers
    THEN customers @@ (OrderPhone(order) :> OrderName(order))
    ELSE customers

(***************************************************************************)
(* process_items: the body of its inner loop, for line item k of an order. *)
(***************************************************************************)
OrderItems(order) == Get(order, "items", <<>>)
ItemName(item) == Strip(Get(item, "name", <<>>))
ItemPrice(item) == Get(item, "price", 0)

\* items[item_name] of the defaultdict: a missing key reads as the default
ItemEntry(items, name) ==
    IF name \in DOMAIN items THEN items[name] ELSE [price |-> 0, orders |-> 0]

\* ItemStep that takes the price of the first occurrence, zero or not
ItemStepFirstPrice(items, order, k) ==
    LET item == OrderItems(order)[k]
        name == ItemName(item)
        old == ItemEntry(items, name)
    IN  IF name # <<>>
        THEN (name :> [price |-> IF name \in DOMAIN items THEN old.price
                                 ELSE ItemPrice(item),
                       orders |-> old.orders + 1]) @@ items
        ELSE items

\* ItemStep that counts an occurrence only when it sets the price
ItemStepCountsPriced(items, order, k) ==
    LET item == OrderItems(order)[k]
        name == ItemName(item)
        old == ItemEntry(items, name)
    IN  IF name # <<>>
        THEN (name :> [price |-> IF old.price = 0 THEN ItemPrice(item)
                                 ELSE old.price,
                       orders |-> IF old.price = 0 THEN old.orders + 1
                                  ELSE old.orders]) @@ items
        ELSE items

\* ItemStep that skips the line items of an order without a valid customer
ItemStepOfCustomers(items, order, k) ==
    LET item == OrderItems(order)[k]
        name == ItemName(item)
        old == ItemEntry(items, name)
    IN  IF name # <<>> /\ CustomerAccepted(order, DefaultPhonePattern)
        THEN (name :> [price |-> IF old.price = 0 THEN ItemPrice(item)
                                 ELSE old.price,
                       orders |-> old.orders + 1]) @@ items
        ELSE items

\* lines 193-202
ItemStep(items, order, k) ==
    LET item == OrderItems(order)[k]
        name == ItemName(item)
        old == ItemEntry(items, name)
    IN  IF name # <<>>
        THEN (name :> [price |-> IF old.price = 0 THEN ItemPrice(item)
                                 ELSE old.price,
                       orders |-> old.orders + 1]) @@ items
        ELSE items

\* process_items as a whole: the fold of ItemStep over the orders from
\* order i, line item k on
RECURSIVE ProcessItemsFrom(_, _, _, _)
ProcessItemsFrom(items, orders, i, k) ==
    IF i > Len(orders) THEN items
    ELSE IF k > Len(OrderItems(orders[i]))
         THEN ProcessItemsFrom(items, orders, i + 1, 1)
         ELSE ProcessItemsFrom(ItemStep(items, orders[i], k), orders, i, k + 1)

process_items(orders) == ProcessItemsFrom(EmptyDict, orders, 1, 1)

(***************************************************************************)
(* The run.                                                                *)
(*   args         the parsed command line: verbose, output_dir             *)
(*   config_file  what args.config holds: kind "NotFound", "InvalidJSON"   *)
(*                or "json" with its value                                 *)
(*   input_file   what args.input_file holds, likewise                     *)
(*   out_dir      the output directory: "absent", "present" (it was there  *)
(*                before the run) or "created" (os.makedirs made it)       *)
(*   faults       the operations of the operating system that will fail   *)
(*                with OSError: "makedirs", <<"open", f>>, <<"write", f>>  *)
(*   out_files    each output file: "absent", "partial" (opened for        *)
(*                writing, json.dump did not finish) or "complete"         *)
(*   pc           the statement of main the run is at, "exit" once the     *)
(*                process has ended                                        *)
(*   phases       the statements of main entered so far, in order          *)
(*   config, phone_pattern, orders, customers, items   main's locals       *)
(*   i, k         the loops' positions: order i, line item k               *)
(*   stdout       the messages printed, in order                           *)
(*   stderr       the traceback of an uncaught exception, "" if none       *)
(*   exit_code    the process's exit status, -1 while it runs              *)
(***************************************************************************)
VARIABLES args, config_file, input_file, faults, out_dir, out_files, pc, phases,
          config, phone_pattern, orders, customers, items, i, k,
          stdout, stderr, exit_code

vars == <<args, config_file, input_file, faults, out_dir, out_files, pc, phases,
          config, phone_pattern, orders, customers, items, i, k,
          stdout, stderr, exit_code>>

env == <<args, config_file, input_file, faults>>
locals == <<config, phone_pattern, orders, customers, items, i, k>>

Running == -1

\* main with the customer file written before the items are aggregated
MainWritesBeforeItems ==
    <<"load_config", "compile_pattern", "load_orders", "process_customers",
      "save_customers", "process_items", "save_items", "complete">>

\* main's statements, in the order it executes them
MainPhases ==
    <<"load_config", "compile_pattern", "load_orders", "process_customers",
      "process_items", "save_customers", "save_items", "complete">>

PhaseAfter(p) ==
    LET n == CHOOSE n \in 1..Len(MainPhases) : MainPhases[n] = p
    IN  IF n < Len(MainPhases) THEN MainPhases[n + 1] ELSE "exit"

\* control passes to the statement after p
Goto(p) ==
    /\ pc' = PhaseAfter(p)
    /\ phases' = IF PhaseAfter(p) = "exit" THEN phases
                 ELSE Append(phases, PhaseAfter(p))

\* sys.exit(status) after the messages msgs
SysExit(msgs, status) ==
    /\ stdout' = stdout \o msgs
    /\ exit_code' = status
    /\ pc' = "exit"
    /\ UNCHANGED <<phases, stderr>>

\* an exception nothing catches: the interpreter prints the traceback and
\* the process ends with status 1
Uncaught(exception) ==
    /\ stderr' = exception
    /\ exit_code' = 1
    /\ pc' = "exit"
    /\ UNCHANGED <<phases, stdout>>

(***************************************************************************)
(* load_config                                                             *)
(***************************************************************************)
RequiredKeys == {"output_customers", "output_items"}

MissingKeys(cfg) == {key \in RequiredKeys : key \notin DOMAIN cfg}

LoadConfigNotFound ==
    /\ pc = "load_config"
    /\ config_file.kind = "NotFound"
    /\ SysExit(<<"Error: Configuration file not found.",
                 "Please create a config.json file">>, 1)
    /\ UNCHANGED <<env, out_dir, out_files, locals>>

LoadConfigInvalidJSON ==
    /\ pc = "load_config"
    /\ config_file.kind = "InvalidJSON"
    /\ SysExit(<<"Error: Invalid JSON in config file">>, 1)
    /\ UNCHANGED <<env, out_dir, out_files, locals>>

LoadConfigMissingKeys ==
    /\ pc = "load_config"
    /\ config_file.kind = "json"
    /\ MissingKeys(config_file.value) # {}
    /\ SysExit(<<"Error: Missing required configuration keys">>, 1)
    /\ UNCHANGED <<env, out_dir, out_files, locals>>

LoadConfigOk ==
    /\ pc = "load_config"
    /\ config_file.kind = "json"
    /\ MissingKeys(config_file.value) = {}
    /\ config' = config_file.value
    /\ stdout' = IF args.verbose
                 THEN stdout \o <<"Using configuration from", "Processing orders from",
                                  "Output directory">>
                 ELSE stdout
    /\ Goto("load_config")
    /\ UNCHANGED <<env, out_dir, out_files, phone_pattern, orders, customers,
                   items, i, k, stderr, exit_code>>

(***************************************************************************)
(* re.compile(config.get('phone_pattern', default))                        *)
(***************************************************************************)
CompilePatternOk ==
    /\ pc = "compile_pattern"
    /\ Get(config, "phone_pattern", DefaultPhonePattern).ok
    /\ phone_pattern' = Get(config, "phone_pattern", DefaultPhonePattern)
    /\ Goto("compile_pattern")
    /\ UNCHANGED <<env, out_dir, out_files, config, orders, customers, items,
                   i, k, stdout, stderr, exit_code>>

CompilePatternError ==
    /\ pc = "compile_pattern"
    /\ ~Get(config, "phone_pattern", DefaultPhonePattern).ok
    /\ Uncaught("re.error")
    /\ UNCHANGED <<env, out_dir, out_files, locals>>

(***************************************************************************)
(* load_orders                                                             *)
(***************************************************************************)
\* load_orders without the sys.exit of line 131: it goes on with no orders
LoadOrdersNotFoundContinues ==
    /\ pc = "load_orders"
    /\ input_file.kind = "NotFound"
    /\ orders' = <<>>
    /\ stdout' = Append(stdout, "Error: File not found.")
    /\ customers' = EmptyDict
    /\ i' = 1
    /\ Goto("load_orders")
    /\ UNCHANGED <<env, out_dir, out_files, config, phone_pattern, items, k,
                   stderr, exit_code>>

\* lines 129-131
LoadOrdersNotFound ==
    /\ pc = "load_orders"
    /\ input_file.kind = "NotFound"
    /\ SysExit(<<"Error: File not found.">>, 1)
    /\ UNCHANGED <<env, out_dir, out_files, locals>>

LoadOrdersInvalidJSON ==
    /\ pc = "load_orders"
    /\ input_file.kind = "InvalidJSON"
    /\ SysExit(<<"Error: Invalid JSON in file">>, 1)
    /\ UNCHANGED <<env, out_dir, out_files, locals>>

LoadOrdersOk ==
    /\ pc = "load_orders"
    /\ input_file.kind = "json"
    /\ orders' = input_file.value
    /\ stdout' = Append(stdout, "Loaded orders")
    /\ customers' = EmptyDict
    /\ i' = 1
    /\ Goto("load_orders")
    /\ UNCHANGED <<env, out_dir, out_files, config, phone_pattern, items, k,
                   stderr, exit_code>>

(***************************************************************************)
(* process_customers, one iteration of its loop at a time                  *)
(***************************************************************************)
ProcessCustomersStep ==
    /\ pc = "process_customers"
    /\ i <= Len(orders)
    /\ customers' = CustomerStep(customers, orders[i], phone_pattern)
    /\ i' = i + 1
    /\ UNCHANGED <<env, out_dir, out_files, pc, phases, config, phone_pattern,
                   orders, items, k, stdout, stderr, exit_code>>

ProcessCustomersReturn ==
    /\ pc = "process_customers"
    /\ i > Len(orders)
    /\ stdout' = Append(stdout, "Found unique customers")
    /\ items' = EmptyDict
    /\ i' = 1
    /\ k' = 1
    /\ Goto("process_customers")
    /\ UNCHANGED <<env, out_dir, out_files, config, phone_pattern, orders,
                   customers, stderr, exit_code>>

(***************************************************************************)
(* process_items, one iteration of its inner loop at a time                *)
(***************************************************************************)
ProcessItemsStep ==
    /\ pc = "process_items"
    /\ i <= Len(orders)
    /\ k <= Len(OrderItems(orders[i]))
    /\ items' = ItemStep(items, orders[i], k)
    /\ k' = k + 1
    /\ UNCHANGED <<env, out_dir, out_files, pc, phases, config, phone_pattern,
                   orders, customers, i, stdout, stderr, exit_code>>

ProcessItemsNextOrder ==
    /\ pc = "process_items"
    /\ i <= Len(orders)
    /\ k > Len(OrderItems(orders[i]))
    /\ i' = i + 1
    /\ k' = 1
    /\ UNCHANGED <<env, out_dir, out_files, pc, phases, config, phone_pattern,
                   orders, customers, items, stdout, stderr, exit_code>>

ProcessItemsReturn ==
    /\ pc = "process_items"
    /\ i > Len(orders)
    /\ stdout' = Append(stdout, "Found unique items")
    /\ Goto("process_items")
    /\ UNCHANGED <<env, out_dir, out_files, locals, stderr, exit_code>>

(***************************************************************************)
(* save_json(data, filename, config, args.output_dir), called at phase p.  *)
(* faults says which of makedirs, open and the write fail.                 *)
(***************************************************************************)
\* line 221: the directory has to be made
NeedsMakedirs == args.output_dir # "." /\ out_dir = "absent"

DirAfterMakedirs == IF NeedsMakedirs THEN "created" ELSE out_dir

\* os.makedirs raises OSError; the handler's message reads full_path, which
\* line 225 has not assigned yet: UnboundLocalError, which nothing catches
SaveJsonMakedirsFails(p, filename) ==
    /\ pc = p
    /\ NeedsMakedirs
    /\ faults.makedirs
    /\ Uncaught("UnboundLocalError")
    /\ UNCHANGED <<env, out_dir, out_files, locals>>

MakedirsPasses == ~(NeedsMakedirs /\ faults.makedirs)

\* open(full_path, 'w') raises OSError
SaveJsonOpenFails(p, filename) ==
    /\ pc = p
    /\ MakedirsPasses
    /\ filename \in faults.open
    /\ out_dir' = DirAfterMakedirs
    /\ SysExit(<<"Error writing to">>, 1)
    /\ UNCHANGED <<env, out_files, locals>>

\* json.dump raises OSError after the file was opened (and truncated)
SaveJsonWriteFails(p, filename) ==
    /\ pc = p
    /\ MakedirsPasses
    /\ filename \notin faults.open
    /\ filename \in faults.write
    /\ out_dir' = DirAfterMakedirs
    /\ out_files' = [out_files EXCEPT ![filename] = "partial"]
    /\ SysExit(<<"Error writing to">>, 1)
    /\ UNCHANGED <<env, locals>>

SaveJsonOk(p, filename) ==
    /\ pc = p
    /\ MakedirsPasses
    /\ filename \notin faults.open
    /\ filename \notin faults.write
    /\ out_dir' = DirAfterMakedirs
    /\ out_files' = [out_files EXCEPT ![filename] = "complete"]
    /\ stdout' = Append(stdout, "Successfully created")
    /\ Goto(p)
    /\ UNCHANGED <<env, locals, stderr, exit_code>>

SaveJson(p, filename) ==
    \/ SaveJsonMakedirsFails(p, filename)
    \/ SaveJsonOpenFails(p, filename)
    \/ SaveJsonWriteFails(p, filename)
    \/ SaveJsonOk(p, filename)

SaveCustomers == SaveJson("save_customers", config["output_customers"])

SaveItems == SaveJson("save_items", config["output_items"])

\* print("Processing complete!"), and the interpreter exits with status 0
Complete ==
    /\ pc = "complete"
    /\ SysExit(<<"Processing complete!">>, 0)
    /\ UNCHANGED <<env, out_dir, out_files, locals>>

Next ==
    \/ LoadConfigNotFound
    \/ LoadConfigInvalidJSON
    \/ LoadConfigMissingKeys
    \/ LoadConfigOk
    \/ CompilePatternOk
    \/ CompilePatternError
    \/ LoadOrdersNotFound
    \/ LoadOrdersInvalidJSON
    \/ LoadOrdersOk
    \/ ProcessCustomersStep
    \/ ProcessCustomersReturn
    \/ ProcessItemsStep
    \/ ProcessItemsNextOrder
    \/ ProcessItemsReturn
    \/ SaveCustomers
    \/ SaveItems
    \/ Complete


(***************************************************************************)
(* The inputs the runs are drawn from.                                     *)
(***************************************************************************)
Phone1 == <<"5", "5", "5", "-", "1", "2", "3", "-", "4", "5", "6", "7">>
PaddedPhone1 == <<" ">> \o Phone1 \o <<"\n">>
ShortPhone == <<"1", "2", "3", "4", "5">>
AreaPhone == <<"5", "5", "5", "-", "1">>
Blank == <<" ">>
Ann == <<"A", "n", "n">>
Bob == <<"B", "o", "b">>
PaddedBob == <<" ">> \o Bob \o <<" ">>
Tea == <<"T", "e", "a">>
PaddedTea == <<" ">> \o Tea
Pie == <<"P", "i", "e">>

PhoneValues == {Phone1, PaddedPhone1, ShortPhone, AreaPhone, Blank}
NameValues == {Ann, PaddedBob, Blank}

\* the phone and name of an order; either key may be missing
CustomerFields ==
    {[phone |-> p, name |-> n] : p \in PhoneValues, n \in NameValues}
        \cup {[phone |-> Phone1], [name |-> Ann]}

LineItems ==
    {[name |-> Tea, price |-> 1], [name |-> PaddedTea, price |-> 2],
     [name |-> Tea], [name |-> Blank, price |-> 1], [name |-> Pie, price |-> 2]}

\* where each of n orders ends in a list of m line items: order j holds the
\* items after cut[j - 1], up to cut[j]
Cuts(n, m) ==
    IF n = 0 THEN {f \in {<<>>} : m = 0}
    ELSE {cut \in [1..n -> 0..m] :
             cut[n] = m /\ \A j \in 1..(n - 1) : cut[j] <= cut[j + 1]}

\* the orders whose phones and names are cs and that hold the line items of
\* flat between them, in order
OrdersOf(cs, flat, cut) ==
    [j \in DOMAIN cs |->
        cs[j] @@ [items |-> SubSeq(flat, IF j = 1 THEN 1 ELSE cut[j - 1] + 1,
                                   cut[j])]]

File(v) == [kind |-> "json", value |-> v]
NotFound == [kind |-> "NotFound"]
InvalidJSON == [kind |-> "InvalidJSON"]

CustomersJson == "customers.json"
ItemsJson == "items.json"
OutputNames == [output_customers |-> CustomersJson, output_items |-> ItemsJson]

NoFaults == [makedirs |-> FALSE, open |-> {}, write |-> {}]

\* the example of the specification: Ann and Bob share a phone and order Tea
ExampleOrders ==
    << [phone |-> Phone1, name |-> Ann,
        items |-> <<[name |-> Tea, price |-> 1]>>],
       [phone |-> Phone1, name |-> Bob,
        items |-> <<[name |-> Tea, price |-> 2], [price |-> 1]>>],
       [name |-> Ann] >>

\* Runs that exercise the loaders and the writer: every kind of
\* configuration and input file, every operation that can fail.
PipelineRuns ==
    [args : [verbose : BOOLEAN, output_dir : {".", "results"}],
     config_file : {NotFound, InvalidJSON, File(EmptyDict),
                    File([output_customers |-> CustomersJson]),
                    File([output_items |-> ItemsJson]),
                    File(OutputNames),
                    File(OutputNames @@ [phone_pattern |-> UnbalancedPattern])},
     input_file : {NotFound, InvalidJSON, File(<<>>), File(ExampleOrders)},
     faults : {NoFaults} \cup
              {[NoFaults EXCEPT !.makedirs = TRUE]} \cup
              {[NoFaults EXCEPT !.open = {f}] : f \in {CustomersJson, ItemsJson}} \cup
              {[NoFaults EXCEPT !.write = {f}] : f \in {CustomersJson, ItemsJson}},
     out_dir : {"absent", "present"}]

PhonePatterns == {DefaultPhonePattern, FiveDigitPattern, AreaCodePattern}

\* A run over the orders cs, each with one Tea, under the phone pattern pat.
CustomerRun(pat, cs) ==
    [args |-> [verbose |-> FALSE, output_dir |-> "."],
     config_file |-> File(OutputNames @@ [phone_pattern |-> pat]),
     input_file |->
        File([j \in DOMAIN cs |->
                 cs[j] @@ [items |-> <<[name |-> Tea, price |-> 1]>>]]),
     faults |-> NoFaults,
     out_dir |-> "present"]

\* the phones and names of the n orders of a run over line items: all
\* accepted by the default pattern, all rejected, or alternating
ItemRunCustomers(n) ==
    LET accepted == [phone |-> Phone1, name |-> Ann]
        rejected == [phone |-> ShortPhone, name |-> Ann]
    IN  {[j \in 1..n |-> accepted], [j \in 1..n |-> rejected],
         [j \in 1..n |-> IF j % 2 = 1 THEN rejected ELSE accepted]}

\* A run over the orders o, with the default configuration.
ItemRun(o) ==
    [args |-> [verbose |-> FALSE, output_dir |-> "results"],
     config_file |-> File(OutputNames),
     input_file |-> File(o),
     faults |-> NoFaults,
     out_dir |-> "absent"]

\* the state before main's first statement, for the run r
Start(r) ==
    /\ args = r.args
    /\ config_file = r.config_file
    /\ input_file = r.input_file
    /\ faults = r.faults
    /\ out_dir = r.out_dir
    /\ out_files = [f \in {CustomersJson, ItemsJson} |-> "absent"]
    /\ pc = "load_config"
    /\ phases = <<"load_config">>
    /\ config = EmptyDict
    /\ phone_pattern = [ok |-> FALSE, body |-> <<>>, dollar |-> FALSE]
    /\ orders = <<>>
    /\ customers = EmptyDict
    /\ items = EmptyDict
    /\ i = 1
    /\ k = 1
    /\ stdout = <<>>
    /\ stderr = ""
    /\ exit_code = Running

\* Every order list of MaxOrders orders or less whose phones and names are
\* drawn from CustomerFields, under each phone pattern.
Init ==
    \/ \E r \in PipelineRuns : Start(r)
    \/ \E pat \in PhonePatterns, n \in 0..MaxOrders :
          \E cs \in [1..n -> CustomerFields] : Start(CustomerRun(pat, cs))

\* Every order list of MaxOrders orders or less with MaxItems line items or
\* less in all, drawn from LineItems.
InitItems ==
    \/ \E r \in PipelineRuns : Start(r)
    \/ \E n \in 0..MaxOrders, m \in 0..MaxItems :
          \E cs \in ItemRunCustomers(n), flat \in [1..m -> LineItems],
             cut \in Cuts(n, m) :
             Start(ItemRun(OrdersOf(cs, flat, cut)))

Spec == Init /\ [][Next]_vars

SpecItems == InitItems /\ [][Next]_vars

(***************************************************************************)
(* Vocabulary of the properties.                                           *)
(***************************************************************************)
Last(q) == q[Len(q)]

IsPrefix(q, r) == Len(q) <= Len(r) /\ SubSeq(r, 1, Len(q)) = q

\* main has reached statement p
Entered(p) == \E n \in DOMAIN phases : phases[n] = p

\* process_customers, process_items has returned
CustomersDone == Entered("process_customers") /\ pc # "process_customers"
ItemsDone == Entered("process_items") /\ pc # "process_items"

Terminated == pc = "exit"

\* the three checks on an order, spelled out: trimmed phone not empty,
\* trimmed name not empty, trimmed phone matches the active pattern
TrimmedPhone(order) ==
    IF "phone" \in DOMAIN order THEN Strip(order["phone"]) ELSE <<>>
TrimmedName(order) ==
    IF "name" \in DOMAIN order THEN Strip(order["name"]) ELSE <<>>
PassesAllChecks(order) ==
    /\ TrimmedPhone(order) # <<>>
    /\ TrimmedName(order) # <<>>
    /\ ReMatch(phone_pattern, TrimmedPhone(order))

\* the positions <<order, line item>> of the input's line items
Positions ==
    UNION {{<<j, n>> : n \in DOMAIN OrderItems(orders[j])} : j \in DOMAIN orders}
Before(p, q) == p[1] < q[1] \/ (p[1] = q[1] /\ p[2] < q[2])
LineItemAt(p) == OrderItems(orders[p[1]])[p[2]]
NameAt(p) ==
    IF "name" \in DOMAIN LineItemAt(p) THEN Strip(LineItemAt(p)["name"]) ELSE <<>>
PriceAt(p) ==
    IF "price" \in DOMAIN LineItemAt(p) THEN LineItemAt(p)["price"] ELSE 0
Occurrences(key) == {p \in Positions : NameAt(p) = key}

RECURSIVE SumOfCounts(_)
SumOfCounts(keys) ==
    IF keys = {} THEN 0
    ELSE LET key == CHOOSE x \in keys : TRUE
         IN  items[key].orders + SumOfCounts(keys \ {key})

(***************************************************************************)
(* C1: every key of the customer mapping, after any number of orders has   *)
(* been processed and in the returned mapping, is a trimmed, non-empty     *)
(* phone string that matches the active phone pattern.                     *)
(***************************************************************************)
C1_KeysMatchPattern ==
    \A key \in DOMAIN customers :
        /\ key # <<>>
        /\ Strip(key) = key
        /\ ReMatch(phone_pattern, key)

\* a padded phone was recorded under its trimmed form and an order with a
\* name and a phone that fails the pattern was left out
C1_Witness ==
    /\ CustomersDone
    /\ \E a, b \in DOMAIN orders :
          /\ "phone" \in DOMAIN orders[a]
          /\ orders[a]["phone"] # TrimmedPhone(orders[a])
          /\ TrimmedPhone(orders[a]) \in DOMAIN customers
          /\ TrimmedPhone(orders[b]) # <<>>
          /\ TrimmedName(orders[b]) # <<>>
          /\ ~ReMatch(phone_pattern, TrimmedPhone(orders[b]))
          /\ TrimmedPhone(orders[b]) \notin DOMAIN customers

(***************************************************************************)
(* C2, as claimed: the name recorded for a phone is the name of the        *)
(* earliest order, in input order, with that phone.                        *)
(***************************************************************************)
C2_NameOfEarliestOrder ==
    CustomersDone =>
        \A key \in DOMAIN customers :
            LET sharing == {n \in DOMAIN orders : TrimmedPhone(orders[n]) = key}
                first == CHOOSE n \in sharing : \A m \in sharing : n <= m
            IN  customers[key] = TrimmedName(orders[first])

(***************************************************************************)
(* C2, amended: the name recorded for a phone is the trimmed name of the   *)
(* earliest order, in input order, that has that trimmed phone and a       *)
(* non-empty trimmed name; no later order with the phone determines it.    *)
(***************************************************************************)
C2_NameOfEarliestNamedOrder ==
    CustomersDone =>
        \A key \in DOMAIN customers :
            LET sharing == {n \in DOMAIN orders :
                               /\ TrimmedPhone(orders[n]) = key
                               /\ TrimmedName(orders[n]) # <<>>}
                first == CHOOSE n \in sharing : \A m \in sharing : n <= m
            IN  sharing # {} /\ customers[key] = TrimmedName(orders[first])

\* two orders share a recorded phone and carry different names
C2_Witness ==
    /\ CustomersDone
    /\ \E a, b \in DOMAIN orders :
          /\ a < b
          /\ TrimmedPhone(orders[a]) = TrimmedPhone(orders[b])
          /\ TrimmedPhone(orders[a]) \in DOMAIN customers
          /\ TrimmedName(orders[a]) # <<>>
          /\ TrimmedName(orders[b]) # <<>>
          /\ TrimmedName(orders[a]) # TrimmedName(orders[b])
          /\ customers[TrimmedPhone(orders[a])] = TrimmedName(orders[a])

(***************************************************************************)
(* C3: for every key of the item mapping, its count is the number of line  *)
(* items, over all orders, whose trimmed name is the key; the empty string *)
(* is never a key, and the counts add up to the number of line items with  *)
(* a non-empty trimmed name.                                               *)
(***************************************************************************)
C3_CountsAreOccurrences ==
    ItemsDone =>
        /\ <<>> \notin DOMAIN items
        /\ \A key \in DOMAIN items :
              items[key].orders = Cardinality(Occurrences(key))
        /\ SumOfCounts(DOMAIN items)
              = Cardinality({p \in Positions : NameAt(p) # <<>>})

\* an item ordered under two spellings that trim to the same key, and a
\* line item with a blank name
C3_Witness ==
    /\ ItemsDone
    /\ \E p, q, r \in Positions :
          /\ "name" \in DOMAIN LineItemAt(p)
          /\ "name" \in DOMAIN LineItemAt(q)
          /\ NameAt(p) # <<>>
          /\ NameAt(p) = NameAt(q)
          /\ LineItemAt(p)["name"] # LineItemAt(q)["name"]
          /\ items[NameAt(p)].orders >= 2
          /\ "name" \in DOMAIN LineItemAt(r)
          /\ NameAt(r) = <<>>

(***************************************************************************)
(* C4: the stored price of an item is the price of its first occurrence,   *)
(* in input order, with a nonzero price, or 0 if it has none; and once an  *)
(* item's stored price is nonzero no step changes it.                      *)
(***************************************************************************)
C4_FirstNonzeroPrice ==
    /\ [](ItemsDone =>
            \A key \in DOMAIN items :
                LET priced == {p \in Occurrences(key) : PriceAt(p) # 0}
                    first == CHOOSE p \in priced :
                                 \A q \in priced : p = q \/ Before(p, q)
                IN  items[key].price = IF priced = {} THEN 0 ELSE PriceAt(first))
    /\ [][\A key \in DOMAIN items :
             items[key].price # 0 =>
                 key \in DOMAIN items' /\ items'[key].price = items[key].price]_vars

\* an item whose occurrences have no price, then a price, then another
\* price: the first price is the one stored
C4_Witness ==
    /\ ItemsDone
    /\ \E p, q, r \in Positions :
          /\ Before(p, q) /\ Before(q, r)
          /\ NameAt(p) = NameAt(q) /\ NameAt(q) = NameAt(r)
          /\ NameAt(p) # <<>>
          /\ \A o \in Occurrences(NameAt(p)) : o \in {p, q, r}
          /\ PriceAt(p) = 0
          /\ PriceAt(q) # 0
          /\ PriceAt(r) \notin {0, PriceAt(q)}
          /\ items[NameAt(p)].price = PriceAt(q)

(***************************************************************************)
(* C5, as claimed: a terminated run has either written both output files   *)
(* completely or written neither.                                          *)
(***************************************************************************)
C5_NoPartialSuccess ==
    Terminated =>
        \/ \A f \in DOMAIN out_files : out_files[f] = "complete"
        \/ \A f \in DOMAIN out_files : out_files[f] = "absent"

(***************************************************************************)
(* C6: when the configuration or the input is missing or is not JSON, or   *)
(* the configuration lacks a required key, the run goes no further than    *)
(* the loaders, and once it has ended its exit status is 1, the loader's   *)
(* error message is the last thing printed, and no output file or          *)
(* directory was created.  (A run whose phone pattern does not compile     *)
(* ends on that exception before it reads the input.)                      *)
(***************************************************************************)
ConfigUnusable ==
    \/ config_file.kind \in {"NotFound", "InvalidJSON"}
    \/ config_file.kind = "json"
       /\ ~({"output_customers", "output_items"} \subseteq DOMAIN config_file.value)

InputUnusable == input_file.kind \in {"NotFound", "InvalidJSON"}

ConfigErrors ==
    {"Please create a config.json file", "Error: Invalid JSON in config file",
     "Error: Missing required configuration keys"}

InputErrors == {"Error: File not found.", "Error: Invalid JSON in file"}

C7_WriteFailureReported ==
    Terminated /\ Entered("save_customers") =>
        IF \A f \in DOMAIN out_files : out_files[f] = "complete"
        THEN exit_code = 0
        ELSE exit_code = 1 /\ stdout # <<>> /\ Last(stdout) = "Error writing to"

(***************************************************************************)
(* C8: the keys of the customer mapping are exactly the trimmed phones of  *)
(* the orders processed so far that pass all three checks, and processing  *)
(* an order that fails a check leaves the mapping as it was.               *)
(***************************************************************************)
AcceptedPhones(n) ==
    {TrimmedPhone(orders[j]) : j \in {j \in 1..n : PassesAllChecks(orders[j])}}

C8_KeysAreAcceptedPhones ==
    /\ []((pc = "process_customers" => DOMAIN customers = AcceptedPhones(i - 1))
          /\ (CustomersDone => DOMAIN customers = AcceptedPhones(Len(orders))))
    /\ [][pc = "process_customers" /\ i <= Len(orders)
          /\ ~PassesAllChecks(orders[i]) => customers' = customers]_vars

\* one order was recorded under its trimmed phone with its trimmed name;
\* another, whose phone matches the pattern but whose name is blank, was not
C8_Witness ==
    /\ CustomersDone
    /\ \E a, b \in DOMAIN orders :
          /\ PassesAllChecks(orders[a])
          /\ DOMAIN customers = {TrimmedPhone(orders[a])}
          /\ customers[TrimmedPhone(orders[a])] = TrimmedName(orders[a])
          /\ TrimmedPhone(orders[b]) # <<>>
          /\ ReMatch(phone_pattern, TrimmedPhone(orders[b]))
          /\ TrimmedName(orders[b]) = <<>>
          /\ TrimmedPhone(orders[b]) \notin DOMAIN customers

(***************************************************************************)
(* C9: the statements of main are entered in the order load configuration, *)
(* compile, load orders, aggregate customers, aggregate items, write       *)
(* customers, write items; no output file is opened before both            *)
(* aggregations have returned, and the item file is not written before the *)
(* customer file.                                                          *)
(***************************************************************************)
C9_PhasesInOrder ==
    /\ IsPrefix(phases,
                <<"load_config", "compile_pattern", "load_orders",
                  "process_customers", "process_items", "save_customers",
                  "save_items", "complete">>)
    /\ pc \in {Last(phases), "exit"}
    /\ (\E f \in DOMAIN out_files : out_files[f] # "absent") =>
          CustomersDone /\ ItemsDone
    /\ out_files[ItemsJson] # "absent" => out_files[CustomersJson] = "complete"

\* a run over some orders that wrote both files and ended with status 0
C9_Witness ==
    /\ Terminated
    /\ exit_code = 0
    /\ orders # <<>>
    /\ \A f \in DOMAIN out_files : out_files[f] = "complete"

(***************************************************************************)
(* C10: process_items returns the same mapping for any order list that     *)
(* differs from the input only in its phones and names; the line items of  *)
(* an order left out of the customer mapping are counted and set prices.   *)
(***************************************************************************)
TwinCustomers ==
    {[phone |-> Phone1, name |-> Ann], [phone |-> ShortPhone, name |-> PaddedBob],
     [name |-> Blank]}

\* the orders with their phones and names replaced by those of twin
WithCustomers(twin) ==
    [j \in DOMAIN orders |->
        twin[j] @@ [key \in DOMAIN orders[j] \cap {"items"} |-> orders[j][key]]]

C10_ItemsIgnoreCustomers ==
    pc = "save_customers" =>
        \A twin \in [DOMAIN orders -> TwinCustomers] :
            process_items(WithCustomers(twin)) = items

\* an item that only an order left out of the customer mapping holds is in
\* the item mapping with that order's price
C10_Witness ==
    /\ pc = "save_customers"
    /\ \E p \in Positions :
          /\ ~PassesAllChecks(orders[p[1]])
          /\ NameAt(p) # <<>>
          /\ PriceAt(p) # 0
          /\ \A q \in Occurrences(NameAt(p)) : q[1] = p[1]
          /\ NameAt(p) \in DOMAIN items
          /\ items[NameAt(p)].price # 0
          /\ items[NameAt(p)].orders = Cardinality(Occurrences(NameAt(p)))

====
